---- MODULE Spec2Model ----
(***************************************************************************)
(* Academic-Assignment-Helper backend.                                     *)
(*                                                                         *)
(* Part I  : the source-retrieval path, rag_service.generate_embedding and *)
(*           rag_service.search_sources, called by main.get_sources.       *)
(* Part II : the /auth/register, /auth/login, /upload and /analysis/{id}   *)
(*           handlers of main.py with auth.get_current_user.               *)
(*                                                                         *)
(* Floating point numbers are modelled as fixed-point integers with four   *)
(* decimals (1.0 is Scale), plus a NaN value.                              *)
(***************************************************************************)
EXTENDS Integers, Sequences, FiniteSets, TLC

VARIABLES
    \* ---- Part I: retrieval ------------------------------------------------
    corpus,           \* table academic_sources: sequence of rows, in heap order
    spc,              \* position of the retrieval request
    entry,            \* "get_sources" (HTTP) or "search_sources" (direct call)
    query,            \* search_sources' argument query
    top_k,            \* search_sources' argument top_k
    calls,            \* external calls made by the request, in order
    provider,         \* what genai.embed_content did for the request
    query_embedding,  \* generate_embedding's return value
    dbFault,          \* why db.execute failed, "none" when it did not fail
    response,         \* the request's outcome
    prev,             \* the search before this one, if it succeeded and this one
                      \* repeats it (same top_k, same query vector): its rows
    \* ---- Part II: accounts, uploads, analysis -----------------------------
    students,         \* table students
    tokens,           \* access tokens issued by /auth/login (their "sub")
    assignments,      \* table assignments
    analysis_results, \* table analysis_results
    files,            \* directory uploads/: filename -> content
    n8n_url,          \* environment variable N8N_WEBHOOK_URL
    uploads,          \* the /upload requests, by request slot
    webhook,          \* the request the analysis webhook received last
    analysisResp      \* the latest /analysis/{assignment_id} response

searchVars == <<corpus, spc, entry, query, top_k, calls, provider, query_embedding,
                dbFault, response, prev>>
apiVars == <<students, tokens, assignments, analysis_results, files, n8n_url, uploads,
             webhook, analysisResp>>
vars == <<searchVars, apiVars>>

(***************************************************************************)
(* Bounds                                                                  *)
(***************************************************************************)
MaxSources == 3
MaxUploads == 2

\* search_sources' default top_k
TopKDefault == 5

(***************************************************************************)
(* Fixed-point numbers                                                     *)
(***************************************************************************)
Scale == 100 * 100

Min(a, b) == IF a <= b THEN a ELSE b

RoundDiv(n, d) == (2 * n + d) \div (2 * d)

FMul(a, b) == RoundDiv(a * b, Scale)

FDiv(a, b) == RoundDiv(a * Scale, b)

RECURSIVE SqrtSearch(_, _, _)
SqrtSearch(n, lo, hi) ==
    IF lo >= hi THEN lo
    ELSE LET mid == (lo + hi + 1) \div 2
         IN IF mid * mid <= n THEN SqrtSearch(n, mid, hi)
            ELSE SqrtSearch(n, lo, mid - 1)

\* r or r + 1, whichever is nearer to the square root of n, r being its floor.
NearestRoot(n, r) == IF n - r * r > r THEN r + 1 ELSE r

\* The square root of the fixed-point number a, to the nearest unit.
FSqrt(a) == NearestRoot(a * Scale, SqrtSearch(a * Scale, 0, 4 * Scale))

RECURSIVE SumSeq(_)
SumSeq(s) == IF s = <<>> THEN 0 ELSE Head(s) + SumSeq(Tail(s))

Dot(a, b) == SumSeq([i \in 1..Len(a) |-> FMul(a[i], b[i])])

\* numpy.linalg.norm
L2Norm(v) == FSqrt(Dot(v, v))

\* A float: a number or NaN.
Num(x) == [nan |-> FALSE, val |-> x]
NaN == [nan |-> TRUE, val |-> 0]

\* numpy's x / y for a finite x and a norm y >= 0. A norm of 0 means every
\* component is 0, so the only division by zero is 0 / 0, which is NaN.
FloatDiv(x, y) == IF y = 0 THEN NaN ELSE Num(FDiv(x, y))

HasNaN(v) == \E i \in 1..Len(v) : v[i].nan

(***************************************************************************)
(* generate_embedding: the normalisation step                              *)
(***************************************************************************)
Normalize(embedding) ==
    LET norm == L2Norm(embedding)
    IN [i \in 1..Len(embedding) |-> FloatDiv(embedding[i], norm)]

\* What genai.embed_content can do: raise (timeout, authentication failure),
\* answer without an 'embedding' entry, or answer with a raw vector.
RawVectors == {<<0, 0>>, <<2, 0>>, <<0, 1>>, <<1, 1>>}

ProviderOutcomes ==
    {[kind |-> k, embedding |-> <<>>] : k \in {"timeout", "auth", "malformed"}}
    \cup {[kind |-> "vector", embedding |-> [i \in 1..Len(v) |-> v[i] * Scale]]
            : v \in RawVectors}

NoProvider == [kind |-> "none", embedding |-> <<>>]

\* Mutant of GenerateEmbedding: the except block returns an empty list.
GenerateEmbeddingSwallow(o) ==
    IF o.kind = "vector"
    THEN [raised |-> FALSE, value |-> Normalize(o.embedding)]
    ELSE [raised |-> FALSE, value |-> <<>>]

\* generate_embedding(text, task_type): the try block returns the normalised
\* list; the except block prints and re-raises.
GenerateEmbedding(o) ==
    IF o.kind = "vector"
    THEN [raised |-> FALSE, value |-> Normalize(o.embedding)]
    ELSE [raised |-> TRUE, value |-> <<>>]

(***************************************************************************)
(* The datastore: table academic_sources and the ranking query             *)
(***************************************************************************)
Null == <<>>

\* Unit vectors of the catalogue, in fixed point.
VecA == <<Scale, 0>>
VecB == <<0, Scale>>
VecC == <<7071, 7071>>

StoredEmbeddings == {VecA, VecB, VecC, Null}

SourceRow(i, e) ==
    [id |-> i, title |-> <<"title", i>>, authors |-> <<"authors", i>>,
     publication_year |-> 2000 + i, abstract |-> <<"abstract", i>>,
     full_text |-> <<"full_text", i>>, source_type |-> <<"type", i>>,
     embedding |-> e]

Corpora ==
    UNION {{[i \in 1..n |-> SourceRow(i, es[i])] : es \in [1..n -> StoredEmbeddings]}
            : n \in 0..MaxSources}

\* "[" + ",".join(map(str, query_embedding)) + "]"
VectorLiteral(v) == [text |-> "vector", elems |-> v]

\* '...'::vector: pgvector accepts a literal of at least one finite number.
LiteralValid(lit) == Len(lit.elems) > 0 /\ ~HasNaN(lit.elems)
LiteralVector(lit) == [i \in 1..Len(lit.elems) |-> lit.elems[i].val]

\* embedding <=> q: cosine distance, 1 - a.b / sqrt(|a|^2 |b|^2)
CosineDistance(a, b) ==
    Scale - FDiv(Dot(a, b), FSqrt(FMul(Dot(a, a), Dot(b, b))))

\* Mutant of SortKey: ORDER BY ... DESC.
SortKeyDesc(r, q) ==
    IF r.embedding = Null THEN 2 * Scale + 1
    ELSE 2 * Scale - CosineDistance(r.embedding, q)

\* The sort key of ORDER BY embedding <=> q. The distance of a NULL embedding
\* is NULL, and ascending order puts NULLs last: the key is above every distance.
SortKey(r, q) ==
    IF r.embedding = Null THEN 2 * Scale + 1 ELSE CosineDistance(r.embedding, q)

\* The ways to list the rows ids by ascending key: the next row is any of the
\* remaining rows of least key.
RECURSIVE SortedOrders(_, _)
SortedOrders(ids, key) ==
    IF ids = {} THEN {<<>>}
    ELSE LET least == {i \in ids : \A j \in ids : key[i] <= key[j]}
         IN UNION {{<<i>> \o rest : rest \in SortedOrders(ids \ {i}, key)}
                    : i \in least}

\* The orders ORDER BY may deliver: rows of equal sort key come in any order.
RankedOrders(table, q) ==
    UNION {SortedOrders(1..Len(table), key)
            : key \in {[i \in 1..Len(table) |-> SortKey(table[i], q)]}}

\* Mutant of SelectColumns: SELECT *.
SelectAllColumns ==
    <<"id", "title", "authors", "publication_year", "abstract", "full_text",
      "source_type", "embedding">>

\* SELECT id, title, authors, publication_year, abstract, source_type
SelectColumns ==
    <<"id", "title", "authors", "publication_year", "abstract", "source_type">>

ProjectRow(r) == [c \in 1..Len(SelectColumns) |-> r[SelectColumns[c]]]

\* Mutant of Limit: one row too many.
LimitOffByOne(rows, k) == SubSeq(rows, 1, Min(k + 1, Len(rows)))

\* LIMIT :top_k
Limit(rows, k) == SubSeq(rows, 1, Min(k, Len(rows)))

\* Why db.execute may raise before the statement runs: the server is not
\* reachable, or table academic_sources does not exist. Without a fault the
\* column embedding is taken to be of pgvector's type vector.
DbFaults == {"none", "unreachable", "no_table"}

\* db.execute(stmt, {"top_k": top_k}) under fault f: every result it can give.
ExecuteQuery(f, table, lit, k) ==
    IF f # "none" THEN {[ok |-> FALSE, error |-> f, rows |-> <<>>]}
    ELSE IF ~LiteralValid(lit)
    THEN {[ok |-> FALSE, error |-> "invalid_vector", rows |-> <<>>]}
    ELSE IF k < 0
    THEN {[ok |-> FALSE, error |-> "negative_limit", rows |-> <<>>]}
    ELSE {[ok |-> TRUE, error |-> "none",
           rows |-> Limit([i \in 1..Len(table) |-> ProjectRow(table[p[i]])], k)]
            : p \in RankedOrders(table, LiteralVector(lit))}

\* Mutant of SearchReturn: a failed query is answered with an empty list.
SearchReturnSwallow(qr) == [kind |-> "ok", error |-> "none", rows |-> qr.rows]

\* search_sources' last two lines: an exception of db.execute propagates,
\* otherwise result.fetchall() is returned.
SearchReturn(qr) ==
    IF qr.ok THEN [kind |-> "ok", error |-> "none", rows |-> qr.rows]
    ELSE [kind |-> "error", error |-> qr.error, rows |-> <<>>]

\* get_sources: one dict per row, by position.
ShapeRow(row) ==
    [id |-> row[1], title |-> row[2], authors |-> row[3],
     publication_year |-> row[4], abstract |-> row[5], source_type |-> row[6]]

ShapeResponse(e, r) ==
    IF e = "get_sources" /\ r.kind = "ok"
    THEN [r EXCEPT !.rows = [i \in 1..Len(r.rows) |-> ShapeRow(r.rows[i])]]
    ELSE r

(***************************************************************************)
(* Part I actions                                                          *)
(***************************************************************************)
Queries == {"", "x"}
TopKs == {-1, 0, 1, 2}

NoDelivery ==
    [data |-> "", student_email |-> "", student_id |-> "", filename |-> "",
     uploaded |-> ""]

NoResponse == [kind |-> "none", error |-> "none", rows |-> <<>>]
NoPrev == [set |-> FALSE, entry |-> "none", vec |-> <<>>, k |-> 0, rows |-> <<>>]

ApiIdle ==
    /\ students = {}
    /\ tokens = {}
    /\ assignments = <<>>
    /\ analysis_results = <<>>
    /\ files = <<>>
    /\ n8n_url = "unset"
    /\ uploads = <<>>
    /\ webhook = NoDelivery
    /\ analysisResp = <<>>

InitSearch ==
    /\ corpus \in Corpora
    /\ spc = "idle"
    /\ entry = "none"
    /\ query = ""
    /\ top_k = 0
    /\ calls = <<>>
    /\ provider = NoProvider
    /\ query_embedding = <<>>
    /\ dbFault = "none"
    /\ response = NoResponse
    /\ prev = NoPrev
    /\ ApiIdle

Enter(e, q, k) ==
    /\ spc = "idle"
    /\ spc' = "embedding"
    /\ entry' = e
    /\ query' = q
    /\ top_k' = k
    /\ prev' = IF prev.set /\ prev.entry = e /\ prev.k = k THEN prev ELSE NoPrev
    /\ UNCHANGED <<corpus, calls, provider, query_embedding, dbFault, response>>
    /\ UNCHANGED apiVars

\* search_sources(db, query, top_k) is entered
SearchSources(q, k) == Enter("search_sources", q, k)

\* GET /sources?query=q, once get_current_user has passed:
\* search_sources(db, query) with the default top_k
GetSources(q) == Enter("get_sources", q, TopKDefault)

\* query_embedding = await generate_embedding(query, task_type="RETRIEVAL_QUERY")
EmbedStep(o) ==
    /\ spc = "embedding"
    /\ calls' = Append(calls, "embed")
    /\ provider' = o
    /\ LET g == GenerateEmbedding(o)
       IN IF g.raised
          THEN /\ spc' = "done"
               /\ response' = [kind |-> "error", error |-> o.kind, rows |-> <<>>]
               /\ prev' = NoPrev
               /\ UNCHANGED query_embedding
          ELSE /\ spc' = "querying"
               /\ query_embedding' = g.value
               /\ prev' = IF prev.set /\ prev.vec = g.value THEN prev ELSE NoPrev
               /\ UNCHANGED response
    /\ UNCHANGED <<corpus, entry, query, top_k, dbFault>>
    /\ UNCHANGED apiVars

\* result = await db.execute(stmt, {"top_k": top_k}); return result.fetchall()
QueryStep(f) ==
    /\ spc = "querying"
    /\ calls' = Append(calls, "db")
    /\ dbFault' = f
    /\ \E qr \in ExecuteQuery(f, corpus, VectorLiteral(query_embedding), top_k) :
          response' = ShapeResponse(entry, SearchReturn(qr))
    /\ spc' = "done"
    /\ UNCHANGED <<corpus, entry, query, top_k, provider, query_embedding, prev>>
    /\ UNCHANGED apiVars

\* The outcome reaches the caller; the request is over.
Return ==
    /\ spc = "done"
    /\ spc' = "idle"
    /\ prev' = IF response.kind = "ok"
               THEN [set |-> TRUE, entry |-> entry, vec |-> query_embedding,
                     k |-> top_k, rows |-> response.rows]
               ELSE NoPrev
    /\ entry' = "none"
    /\ query' = ""
    /\ top_k' = 0
    /\ calls' = <<>>
    /\ provider' = NoProvider
    /\ query_embedding' = <<>>
    /\ dbFault' = "none"
    /\ response' = NoResponse
    /\ UNCHANGED corpus
    /\ UNCHANGED apiVars

NextSearch ==
    \/ \E q \in Queries, k \in TopKs : SearchSources(q, k)
    \/ \E q \in Queries : GetSources(q)
    \/ \E o \in ProviderOutcomes : EmbedStep(o)
    \/ \E f \in DbFaults : QueryStep(f)
    \/ Return

SpecSearch == InitSearch /\ [][NextSearch]_vars

(***************************************************************************)
(* Part II: accounts                                                       *)
(***************************************************************************)
Emails == {"a@x", "b@x"}
StudentIds == {"s1", "s2"}
Passwords == {"pw"}
Filenames == {"f", "g"}
Contents == {"c1", "c2"}

\* pwd_context.hash and pwd_context.verify
Hash(password) == <<"bcrypt", password>>
Verify(password, password_hash) == password_hash = Hash(password)

\* create_access_token(data={"sub": user.email}): a signed token
AccessToken(email) == [sub |-> email]

\* POST /auth/register: 409 when the email or the student_id is taken
Register(email, password, student_id) ==
    /\ ~\E s \in students : s.email = email
    /\ ~\E s \in students : s.student_id = student_id
    /\ students' = students \cup
          {[email |-> email, password_hash |-> Hash(password),
            student_id |-> student_id]}
    /\ UNCHANGED <<tokens, assignments, analysis_results, files, n8n_url,
                   uploads, webhook, analysisResp>>
    /\ UNCHANGED searchVars

\* POST /auth/login: 401 unless the student exists and the password verifies
Login(email, password) ==
    /\ \E s \in students : s.email = email /\ Verify(password, s.password_hash)
    /\ tokens' = tokens \cup {AccessToken(email)}
    /\ UNCHANGED <<students, assignments, analysis_results, files, n8n_url,
                   uploads, webhook, analysisResp>>
    /\ UNCHANGED searchVars

\* get_current_user: the students the token authenticates (one or none). A
\* token this server did not sign fails jwt.decode.
CurrentUser(token) ==
    {s \in students : token \in tokens /\ s.email = token.sub}

PresentedTokens == {AccessToken(e) : e \in Emails} \cup {[sub |-> "forged"]}

(***************************************************************************)
(* Part II: POST /upload                                                   *)
(***************************************************************************)
Requests == 1..MaxUploads

\* The path parameter of GET /analysis/{assignment_id}
AssignmentIds == 1..MaxUploads

Empty == "empty"
Absent == "absent"

FreeSlot ==
    [pc |-> "free", email |-> "", student_id |-> "", filename |-> "",
     body |-> "", file_content |-> "", assignment_id |-> 0, status |-> 0]

\* The r-th /upload request arrives and its handler is entered:
\* get_current_user passed, file_path is computed.
UploadStart(r, token, filename, body) ==
    /\ uploads[r].pc = "free"
    /\ \A q \in 1..(r - 1) : uploads[q].pc # "free"
    /\ \E u \in CurrentUser(token) :
          uploads' = [uploads EXCEPT ![r] =
                         [FreeSlot EXCEPT !.pc = "open", !.email = u.email,
                                          !.student_id = u.student_id,
                                          !.filename = filename, !.body = body]]
    /\ UNCHANGED <<students, tokens, assignments, analysis_results, files,
                   n8n_url, webhook, analysisResp>>
    /\ UNCHANGED searchVars

Fail(r) == [FreeSlot EXCEPT !.pc = "done", !.status = 500]

\* aiofiles.open(file_path, "wb"): the file is created or truncated
UploadOpen(r) ==
    /\ uploads[r].pc = "open"
    /\ files' = [files EXCEPT ![uploads[r].filename] = Empty]
    /\ uploads' = [uploads EXCEPT ![r].pc = "write"]
    /\ UNCHANGED <<students, tokens, assignments, analysis_results, n8n_url,
                   webhook, analysisResp>>
    /\ UNCHANGED searchVars

\* await f.write(await file.read()), and the file is closed
UploadWrite(r) ==
    /\ uploads[r].pc = "write"
    /\ files' = [files EXCEPT ![uploads[r].filename] = uploads[r].body]
    /\ uploads' = [uploads EXCEPT ![r].pc = "saved"]
    /\ UNCHANGED <<students, tokens, assignments, analysis_results, n8n_url,
                   webhook, analysisResp>>
    /\ UNCHANGED searchVars

\* except Exception: 500 "Failed to save file"
UploadSaveFail(r) ==
    /\ uploads[r].pc \in {"open", "write"}
    /\ uploads' = [uploads EXCEPT ![r] = Fail(r)]
    /\ UNCHANGED <<students, tokens, assignments, analysis_results, files,
                   n8n_url, webhook, analysisResp>>
    /\ UNCHANGED searchVars

\* What await aiofiles.open(file_path, "rb") followed by read() delivers.
ReadFile(fs, filename) == fs[filename]

\* n8n_url is read (500 when it is not set), then the saved file is re-opened
\* and read into memory
UploadRead(r) ==
    /\ uploads[r].pc = "saved"
    /\ uploads' = [uploads EXCEPT ![r] =
          IF n8n_url = "unset" THEN Fail(r)
          ELSE [uploads[r] EXCEPT
                   !.pc = "post",
                   !.file_content = ReadFile(files, uploads[r].filename)]]
    /\ UNCHANGED <<students, tokens, assignments, analysis_results, files,
                   n8n_url, webhook, analysisResp>>
    /\ UNCHANGED searchVars

PostOutcomes == {"ok", "http_error", "network_error"}

\* client.post(n8n_url, files=..., data=...) and response.raise_for_status().
\* Field uploaded is not sent: it records what this request's client uploaded.
UploadPost(r, outcome) ==
    /\ uploads[r].pc = "post"
    /\ webhook' = IF outcome = "network_error" THEN webhook
                  ELSE [data |-> uploads[r].file_content,
                        student_email |-> uploads[r].email,
                        student_id |-> uploads[r].student_id,
                        filename |-> uploads[r].filename,
                        uploaded |-> uploads[r].body]
    /\ uploads' = [uploads EXCEPT ![r] =
          IF outcome = "ok"
          THEN [uploads[r] EXCEPT !.pc = "assignment", !.body = "",
                                  !.file_content = ""]
          ELSE Fail(r)]
    /\ UNCHANGED <<students, tokens, assignments, analysis_results, files,
                   n8n_url, analysisResp>>
    /\ UNCHANGED searchVars

\* assignment = Assignment(student_id=..., filename=...); db.add; commit; refresh
UploadCommitAssignment(r) ==
    /\ uploads[r].pc = "assignment"
    /\ LET id == Len(assignments) + 1
       IN /\ assignments' = Append(assignments,
                 [id |-> id, student_id |-> uploads[r].student_id,
                  filename |-> uploads[r].filename])
          /\ uploads' = [uploads EXCEPT ![r].pc = "analysis",
                                        ![r].assignment_id = id]
    /\ UNCHANGED <<students, tokens, analysis_results, files, n8n_url, webhook,
                   analysisResp>>
    /\ UNCHANGED searchVars

\* analysis_result = AnalysisResult(assignment_id=assignment.id); commit; return
UploadCommitAnalysis(r) ==
    /\ uploads[r].pc = "analysis"
    /\ analysis_results' = Append(analysis_results,
          [id |-> Len(analysis_results) + 1,
           assignment_id |-> uploads[r].assignment_id])
    /\ uploads' = [uploads EXCEPT ![r] =
                      [FreeSlot EXCEPT !.pc = "done", !.status = 200]]
    /\ UNCHANGED <<students, tokens, assignments, files, n8n_url, webhook,
                   analysisResp>>
    /\ UNCHANGED searchVars

(***************************************************************************)
(* Part II: GET /analysis/{assignment_id}                                  *)
(***************************************************************************)
Range(s) == {s[i] : i \in 1..Len(s)}

\* Mutant of FindAssignment: the owner is not part of the WHERE clause.
FindAssignmentAnyOwner(assignment_id, student_id) ==
    {a \in Range(assignments) : a.id = assignment_id}

\* select(Assignment).where(Assignment.id == assignment_id,
\*                          Assignment.student_id == current_user.student_id)
FindAssignment(assignment_id, student_id) ==
    {a \in Range(assignments) : a.id = assignment_id /\ a.student_id = student_id}

\* select(AnalysisResult).where(AnalysisResult.assignment_id == assignment_id)
FindAnalysis(assignment_id) ==
    {x \in Range(analysis_results) : x.assignment_id = assignment_id}

NoBody == [id |-> 0, assignment_id |-> 0]
NoAnalysisResp == [caller |-> "", assignment_id |-> 0, status |-> 0, body |-> NoBody]

\* The handler's answer to current user u.
AnalysisAnswer(u, assignment_id) ==
    IF FindAssignment(assignment_id, u.student_id) = {}
       \/ FindAnalysis(assignment_id) = {}
    THEN [caller |-> u.student_id, assignment_id |-> assignment_id,
          status |-> 404, body |-> NoBody]
    ELSE LET analysis == CHOOSE x \in FindAnalysis(assignment_id) : TRUE
         IN [caller |-> u.student_id, assignment_id |-> assignment_id,
             status |-> 200,
             body |-> [id |-> analysis.id, assignment_id |-> analysis.assignment_id]]

GetAnalysis(token, assignment_id) ==
    /\ analysisResp' =
          IF CurrentUser(token) = {}
          THEN [caller |-> "", assignment_id |-> assignment_id, status |-> 401,
                body |-> NoBody]
          ELSE AnalysisAnswer(CHOOSE u \in CurrentUser(token) : TRUE, assignment_id)
    /\ UNCHANGED <<students, tokens, assignments, analysis_results, files,
                   n8n_url, uploads, webhook>>
    /\ UNCHANGED searchVars

SearchIdle ==
    /\ corpus = <<>>
    /\ spc = "idle"
    /\ entry = "none"
    /\ query = ""
    /\ top_k = 0
    /\ calls = <<>>
    /\ provider = NoProvider
    /\ query_embedding = <<>>
    /\ dbFault = "none"
    /\ response = NoResponse
    /\ prev = NoPrev

\* A fresh deployment: empty tables, empty uploads directory.
InitApi ==
    /\ students = {}
    /\ tokens = {}
    /\ assignments = <<>>
    /\ analysis_results = <<>>
    /\ files = [f \in Filenames |-> Absent]
    /\ n8n_url \in {"unset", "http://n8n/webhook"}
    /\ uploads = [r \in Requests |-> FreeSlot]
    /\ webhook = NoDelivery
    /\ analysisResp = NoAnalysisResp
    /\ SearchIdle

NextApi ==
    \/ \E e \in Emails, p \in Passwords, sid \in StudentIds : Register(e, p, sid)
    \/ \E e \in Emails, p \in Passwords \cup {"wrong"} : Login(e, p)
    \/ \E r \in Requests, t \in PresentedTokens, f \in Filenames, b \in Contents :
          UploadStart(r, t, f, b)
    \/ \E r \in Requests : UploadOpen(r)
    \/ \E r \in Requests : UploadWrite(r)
    \/ \E r \in Requests : UploadSaveFail(r)
    \/ \E r \in Requests : UploadRead(r)
    \/ \E r \in Requests, o \in PostOutcomes : UploadPost(r, o)
    \/ \E r \in Requests : UploadCommitAssignment(r)
    \/ \E r \in Requests : UploadCommitAnalysis(r)
    \/ \E t \in PresentedTokens, a \in AssignmentIds : GetAnalysis(t, a)

SpecApi == InitApi /\ [][NextApi]_vars

\* The same handlers with a configured webhook and one file name and content:
\* the ownership of assignments, not the bytes, is what varies.
InitAnalysis == InitApi /\ n8n_url # "unset"

NextAnalysis ==
    \/ \E e \in Emails, p \in Passwords, sid \in StudentIds : Register(e, p, sid)
    \/ \E e \in Emails, p \in Passwords \cup {"wrong"} : Login(e, p)
    \/ \E r \in Requests, t \in PresentedTokens : UploadStart(r, t, "f", "c1")
    \/ \E r \in Requests : UploadOpen(r)
    \/ \E r \in Requests : UploadWrite(r)
    \/ \E r \in Requests : UploadSaveFail(r)
    \/ \E r \in Requests : UploadRead(r)
    \/ \E r \in Requests, o \in PostOutcomes : UploadPost(r, o)
    \/ \E r \in Requests : UploadCommitAssignment(r)
    \/ \E r \in Requests : UploadCommitAnalysis(r)
    \/ \E t \in PresentedTokens, a \in AssignmentIds : GetAnalysis(t, a)

SpecAnalysis == InitAnalysis /\ [][NextAnalysis]_vars

(***************************************************************************)
(* Part I properties                                                       *)
(***************************************************************************)
Finished == spc = "done"
Succeeded == spc = "done" /\ response.kind = "ok"

\* The query vector as the datastore reads it.
QueryVector == LiteralVector(VectorLiteral(query_embedding))

EmbeddingUsable ==
    provider.kind = "vector" /\ LiteralValid(VectorLiteral(query_embedding))

\* The id of a returned record: a dict of get_sources or a row of search_sources.
RowId(row) == IF entry = "get_sources" THEN row.id ELSE row[1]

ReturnedIds == [i \in 1..Len(response.rows) |-> RowId(response.rows[i])]

\* The cosine distance of every catalogued source to q: <<d>>, or <<>> for a
\* source without an embedding.
Distances(q) ==
    [s \in 1..Len(corpus) |->
        IF corpus[s].embedding = Null THEN <<>>
        ELSE <<CosineDistance(corpus[s].embedding, q)>>]

\* A source at distance d is nearer than one at distance e; a source without
\* an embedding is nearer than none.
Nearer(d, e) == d # <<>> /\ (e = <<>> \/ d[1] < e[1])

\* C1: a search with top_k = k > 0 whose embedding call and datastore query
\* both succeed returns exactly min(k, n) rows of a corpus of n sources, and
\* it does succeed (no error) whenever both calls do, an empty corpus included.
C1_ResultBound ==
    (Finished /\ top_k > 0) =>
        /\ response.kind = "ok" =>
              Len(response.rows) = Min(top_k, Len(corpus))
        /\ (EmbeddingUsable /\ calls = <<"embed", "db">> /\ dbFault = "none") =>
              response.kind = "ok"

C1_Witness ==
    /\ Succeeded
    /\ top_k = 2
    /\ Len(corpus) = 3
    /\ Len(response.rows) = 2

\* C2: the returned rows are distinct sources in ascending cosine distance to
\* the query vector, no source left out is nearer than a returned one, and for
\* the corpus A, B, C with query vector [1, 0] and top_k = 2 the result is A, C.
C2_NearestFirst ==
    Succeeded =>
        \A ids \in {ReturnedIds}, dist \in {Distances(QueryVector)} :
           /\ \A i \in 1..Len(ids) : ids[i] \in 1..Len(corpus)
           /\ \A i, j \in 1..Len(ids) : i < j =>
                 /\ ids[i] # ids[j]
                 /\ ~Nearer(dist[ids[j]], dist[ids[i]])
           /\ \A s \in 1..Len(corpus) :
                 (\A i \in 1..Len(ids) : ids[i] # s) =>
                     \A i \in 1..Len(ids) : ~Nearer(dist[s], dist[ids[i]])
           /\ ( /\ [i \in 1..Len(corpus) |-> corpus[i].embedding] = <<VecA, VecB, VecC>>
                /\ QueryVector = VecA
                /\ top_k = 2 ) => ids = <<1, 3>>

C2_Witness ==
    /\ Succeeded
    /\ [i \in 1..Len(corpus) |-> corpus[i].embedding] = <<VecA, VecB, VecC>>
    /\ QueryVector = VecA
    /\ top_k = 2
    /\ ReturnedIds = <<1, 3>>

\* C3: a search with an empty query or with top_k <= 0 makes no external call
\* and ends in InvalidArgumentError.
C3_InvalidRejected ==
    (spc # "idle" /\ (query = "" \/ top_k <= 0)) =>
        /\ calls = <<>>
        /\ Finished => response.error = "InvalidArgumentError"

\* C4: when the provider returns the zero vector, generate_embedding fails: no
\* vector (none with NaN components) is returned and no datastore query is made.
C4_ZeroVectorFails ==
    (provider.kind = "vector" /\ \A i \in 1..Len(provider.embedding) :
                                      provider.embedding[i] = 0) =>
        /\ Finished
        /\ response.kind = "error"
        /\ query_embedding = <<>>
        /\ calls = <<"embed">>

\* C5: the embedding call comes before the datastore query, and a failed
\* embedding call ends the search in that error with no datastore query and no
\* result list.
C5_EmbeddingFailurePropagates ==
    /\ calls \in {<<>>, <<"embed">>, <<"embed", "db">>}
    /\ provider.kind \in {"timeout", "auth", "malformed"} =>
          /\ Finished
          /\ response = [kind |-> "error", error |-> provider.kind, rows |-> <<>>]
          /\ calls = <<"embed">>

C5_Witness ==
    /\ Finished
    /\ provider.kind = "timeout"
    /\ response.kind = "error"

\* C6: a similarity query that could not be executed ends the search in an
\* error, and an empty result is returned only by a query that ran; for
\* top_k > 0 only when the corpus holds no source.
C6_DatastoreFailureDistinct ==
    Finished =>
        /\ dbFault # "none" =>
              response = [kind |-> "error", error |-> dbFault, rows |-> <<>>]
        /\ (response.kind = "ok" /\ response.rows = <<>>) =>
              /\ calls = <<"embed", "db">>
              /\ dbFault = "none"
              /\ EmbeddingUsable
              /\ top_k > 0 => corpus = <<>>

C6_Witness ==
    /\ Finished
    /\ dbFault = "no_table"
    /\ response.kind = "error"
    /\ Len(corpus) > 0

\* C7: a search that repeats the one before it (same corpus, same query
\* vector, same top_k) returns the same rows in the same order.
C7_RepeatableOrder ==
    (Succeeded /\ prev.set) => response.rows = prev.rows

\* C8: every returned record holds exactly the fields id, title, authors,
\* publication_year, abstract and source_type of one catalogued source.
PublicFields ==
    {"id", "title", "authors", "publication_year", "abstract", "source_type"}

C8_FieldProjection ==
    Succeeded =>
        \A i \in 1..Len(response.rows) :
            LET row == response.rows[i]
            IN IF entry = "get_sources"
               THEN /\ DOMAIN row = PublicFields
                    /\ \E s \in 1..Len(corpus) :
                          \A f \in PublicFields : row[f] = corpus[s][f]
               ELSE /\ Len(row) = Cardinality(PublicFields)
                    /\ \E s \in 1..Len(corpus) :
                          row = <<corpus[s].id, corpus[s].title, corpus[s].authors,
                                  corpus[s].publication_year, corpus[s].abstract,
                                  corpus[s].source_type>>

C8_Witness ==
    /\ Succeeded
    /\ entry = "get_sources"
    /\ Len(response.rows) >= 2

(***************************************************************************)
(* Part II properties                                                      *)
(***************************************************************************)
\* C9: every request the analysis webhook receives carries, with the
\* uploader's student_email and student_id, the bytes uploaded in that same
\* request.
C9_ForwardsOwnBytes == webhook.data = webhook.uploaded

\* The student_id of the assignment's owner (no element: no such assignment).
Owner(assignment_id) ==
    {a.student_id : a \in {x \in Range(assignments) : x.id = assignment_id}}

\* C10: GET /analysis/{assignment_id} answers 200 with analysis fields only
\* to the student whose student_id the assignment carries; for an assignment
\* of another student, or none, an authenticated caller gets 404 and no
\* analysis data.
C10_AnalysisOnlyToOwner ==
    analysisResp.status # 0 =>
        /\ analysisResp.status = 200 =>
              /\ \E s \in students : s.student_id = analysisResp.caller
              /\ Owner(analysisResp.assignment_id) = {analysisResp.caller}
              /\ analysisResp.body.assignment_id = analysisResp.assignment_id
        /\ (analysisResp.status # 401
            /\ Owner(analysisResp.assignment_id) # {analysisResp.caller}) =>
              analysisResp.status = 404
        /\ analysisResp.status # 200 => analysisResp.body = NoBody

C10_Witness ==
    /\ analysisResp.status = 404
    /\ Owner(analysisResp.assignment_id) # {}
    /\ analysisResp.caller \notin Owner(analysisResp.assignment_id)
    /\ FindAnalysis(analysisResp.assignment_id) # {}
    /\ \E a \in Range(assignments) : a.student_id = analysisResp.caller

====
